---- MODULE Spec2Model ----
(***************************************************************************)
(* Job dispatch and progress broadcast of the 3D tracker backend.          *)
(*                                                                         *)
(*   SpecQ   stage workers of backend/blender_worker/enhanced_blender.py   *)
(*           competing for the Redis list 'blender_jobs', the retry and    *)
(*           dead-letter logic and the job records 'job:<id>'.             *)
(*   SpecWS  the broadcast server of backend/websocket/server.py: client   *)
(*           registry, Redis pub/sub listener, direct progress ingress.    *)
(***************************************************************************)
EXTENDS Integers, Sequences, FiniteSets, TLC

\* ------------------------------------------------------------------ bounds
NumJobs == 2
NumWorkers == 2
MaxRetriesCfg == 2
NumConns == 2        \* websocket connections accepted by the broadcast server
NumClientIds == 2    \* client_id values used in identify messages
MaxIdentify == 2     \* identify messages received in total
MaxSubscribe == 1    \* subscribe_job messages received in total
NumEvents == 1       \* report_progress calls
NumReqs == 2         \* upload requests received by the gateway
MaxUploadCfg == 2    \* MAX_UPLOAD_SIZE, scaled down

Jobs == 1..NumJobs
Workers == 1..NumWorkers
Conns == 1..NumConns
ClientIds == 1..NumClientIds
Events == 1..NumEvents
Reqs == 1..NumReqs

VARIABLES
    \* Redis, shared by all processes
    blender_jobs,         \* list 'blender_jobs': serialized descriptors, head = left end
    failed_blender_jobs,  \* list 'failed_blender_jobs' (dead letters), head = left end
    store,                \* keys 'job:<id>': job id -> serialized record
    \* one stage worker process per element of Workers
    max_retries,          \* int(os.getenv('MAX_RETRIES', '3'))
    wpc,                  \* position of each worker in main_worker_loop
    job_data,             \* local job_data of each worker (a dict)
    retries,              \* local retries of each worker
    \* history, not program state
    enqueued,             \* the jobs handed to the stage so far
    fails,                \* failed processing attempts per job
    waiting,              \* the jobs pushed on 'blender_jobs' and not yet popped, oldest first
    \* broadcast server (one asyncio process)
    clients,              \* self.clients: the dict's entry array, in insertion order
    cstate,               \* each connection's transport: "none", "open", "closed"
    hpc,                  \* position of each connection's handle_client task
    client_id,            \* local client_id of each handle_client task (0 = None)
    hsend,                \* the send a handle_client task is suspended in
    hjob,                 \* job_id of the subscribe_job a task is serving
    inbox,                \* per connection: the job_status and progress_update texts sent to it
    subscribed,           \* the listener's psubscribe('progress:*') is in place
    pubsubq,              \* pmessages delivered to the listener, not yet taken
    lpc,                  \* position of the redis_listener task
    bmsg,                 \* broadcast: the message of the running pass
    iter,                 \* broadcast: the dict iterator of the for loop
    bto,                  \* broadcast: the entry whose send is awaited
    disconnected_clients, \* broadcast: local list of the running pass
    \* a worker inside report_progress
    rpc,                  \* "idle", or "posted" (between requests.post and publish)
    payload,              \* the payload of the report in progress
    \* history, not program state
    nreports,             \* report_progress calls so far
    nidentify,            \* identify messages per connection so far
    nsubscribe,           \* subscribe_job messages served per connection so far
    subAt,                \* per connection: nreports when its last subscribe_job came in
    plog,                 \* the running or last broadcast pass
    \* ingestion gateway (one asyncio process), one upload_video call per request
    colmap_jobs,          \* list 'colmap_jobs' (stage 1), head = left end
    max_upload_size,      \* int(os.getenv('MAX_UPLOAD_SIZE', '2147483648'))
    gpc,                  \* position of each upload_video call
    greq,                 \* the uploaded file of each request
    gresp,                \* the response of each request: "none", "success", "error"
    \* history, not program state
    pushes,               \* per request: lpush calls on 'colmap_jobs' that went through
    sets                  \* per request: set calls on 'job:<id>' that went through

wsvars == <<clients, cstate, hpc, client_id, hsend, hjob, inbox, subscribed, pubsubq,
            lpc, bmsg, iter, bto, disconnected_clients, rpc, payload,
            nreports, nidentify, nsubscribe, subAt, plog>>

hvars == <<cstate, hpc, client_id, hsend, hjob>>
lvars == <<lpc, bmsg, iter, bto, disconnected_clients>>
rvars == <<rpc, payload, nreports>>

qvars == <<blender_jobs, failed_blender_jobs, store, max_retries, wpc, job_data,
           retries, enqueued, fails, waiting>>

gvars == <<colmap_jobs, max_upload_size, gpc, greq, gresp, pushes, sets>>

vars == <<qvars, wsvars, gvars>>

\* ------------------------------------------------------------ dict helpers
EmptyDict == [k \in {} |-> 0]

\* dict.get(key, default)
Get(d, k, default) == IF k \in DOMAIN d THEN d[k] ELSE default

\* d[key] = value
Put(d, k, v) == [x \in (DOMAIN d) \cup {k} |-> IF x = k THEN v ELSE d[x]]

\* json.dumps of a flat dict: the text blob is its set of "key": value members
json_dumps(d) == {<<k, d[k]>> : k \in DOMAIN d}

\* json.loads of such a blob
json_loads(s) == [k \in {p[1] : p \in s} |-> (CHOOSE p \in s : p[1] = k)[2]]

\* a push at the right end, where BRPOP pops
lpush_right(list, v) == Append(list, v)

\* LPUSH key value
lpush(list, v) == <<v>> \o list

\* the sequence q without the first occurrence of x
Without(q, x) ==
    IF \E i \in 1..Len(q) : q[i] = x
    THEN LET i == CHOOSE n \in 1..Len(q) : q[n] = x /\ \A m \in 1..(n - 1) : q[m] # x
         IN SubSeq(q, 1, i - 1) \o SubSeq(q, i + 1, Len(q))
    ELSE q

\* a pop that reads the tail element and leaves it in the list
brpop_rest_peek(list) == list

\* the list that BRPOP leaves behind, and the element it returns
brpop_rest(list) == SubSeq(list, 1, Len(list) - 1)
brpop_value(list) == list[Len(list)]

\* ------------------------------------------------------------ stage queue
\* The descriptor handed to the stage by the upstream producer, which is not
\* part of the sources: a fresh job id, no per-stage retry counter yet.
NewDescriptor(j) == [job_id |-> j, status |-> "queued"]

\* enqueue(stage, descriptor) of the upstream producer together with the
\* initial job record
Enqueue(j) ==
    /\ j \notin enqueued
    /\ enqueued' = enqueued \cup {j}
    /\ blender_jobs' = lpush(blender_jobs, json_dumps(NewDescriptor(j)))
    /\ store' = Put(store, j, json_dumps(NewDescriptor(j)))
    /\ waiting' = Append(waiting, j)
    /\ UNCHANGED <<wsvars, gvars, failed_blender_jobs, max_retries, wpc, job_data, retries, fails>>

\* ------------------------------------------------------------ stage worker
\* time.time() read by a worker while it processes job j, abstracted to the
\* number of the job's attempt under way: two readings within one attempt are
\* not told apart, readings in different attempts of a job (which lie at
\* least one attempt and the retry sleep apart) differ
time_time(j) == fails[j] + 1

\* brpop(['blender_jobs'], timeout=60) returned a job; json.loads; the reads of
\* job_id and blender_retries (a timeout on the empty list just loops)
Dequeue(w) ==
    /\ wpc[w] = "brpop"
    /\ Len(blender_jobs) > 0
    /\ blender_jobs' = brpop_rest(blender_jobs)
    /\ job_data' = [job_data EXCEPT ![w] = json_loads(brpop_value(blender_jobs))]
    /\ retries' = [retries EXCEPT ![w] = Get(job_data'[w], "blender_retries", 0)]
    /\ wpc' = [wpc EXCEPT ![w] = "start"]
    /\ waiting' = Without(waiting, job_data'[w].job_id)
    /\ UNCHANGED <<wsvars, gvars, failed_blender_jobs, store, max_retries, enqueued, fails>>

\* process_blender_job: status 'processing_blender' is written to the store
StartJob(w) ==
    /\ wpc[w] = "start"
    /\ LET jd == Put(Put(job_data[w], "status", "processing_blender"),
                     "blender_started_at", time_time(job_data[w].job_id)) IN
         /\ job_data' = [job_data EXCEPT ![w] = jd]
         /\ store' = Put(store, jd.job_id, json_dumps(jd))
    /\ wpc' = [wpc EXCEPT ![w] = "work"]
    /\ UNCHANGED <<wsvars, gvars, blender_jobs, failed_blender_jobs, max_retries, retries, enqueued, fails, waiting>>

\* a success path that writes 'completed' and then falls off the end of the
\* function, so that the loop sees a falsy result
SucceedNoReturn(w) ==
    /\ wpc[w] = "work"
    /\ LET jd == Put(Put(Put(job_data[w], "status", "completed"),
                         "completed_at", time_time(job_data[w].job_id)), "output_file", "blend") IN
         /\ job_data' = [job_data EXCEPT ![w] = jd]
         /\ store' = Put(store, jd.job_id, json_dumps(jd))
    /\ wpc' = [wpc EXCEPT ![w] = "failed"]
    /\ UNCHANGED <<wsvars, gvars, blender_jobs, failed_blender_jobs, max_retries, retries, enqueued, fails, waiting>>

\* process_blender_job: the stage work went through; 'completed' is written,
\* True is returned and the loop goes back to brpop
Succeed(w) ==
    /\ wpc[w] = "work"
    /\ LET jd == Put(Put(Put(job_data[w], "status", "completed"),
                         "completed_at", time_time(job_data[w].job_id)), "output_file", "blend") IN
         store' = Put(store, jd.job_id, json_dumps(jd))
    /\ job_data' = [job_data EXCEPT ![w] = EmptyDict]
    /\ retries' = [retries EXCEPT ![w] = 0]
    /\ wpc' = [wpc EXCEPT ![w] = "brpop"]
    /\ UNCHANGED <<wsvars, gvars, blender_jobs, failed_blender_jobs, max_retries, enqueued, fails, waiting>>

\* an except block that returns False without the store write
FailNoStore(w) ==
    /\ wpc[w] = "work"
    /\ LET jd == Put(Put(Put(job_data[w], "status", "failed_blender"), "error", "stage failed"),
                     "failed_at", time_time(job_data[w].job_id)) IN
         /\ job_data' = [job_data EXCEPT ![w] = jd]
         /\ fails' = [fails EXCEPT ![jd.job_id] = @ + 1]
    /\ wpc' = [wpc EXCEPT ![w] = "failed"]
    /\ UNCHANGED <<wsvars, gvars, blender_jobs, failed_blender_jobs, store, max_retries, retries, enqueued, waiting>>

\* process_blender_job: the stage work raised; the except block writes
\* 'failed_blender' with the error and returns False
Fail(w) ==
    /\ wpc[w] = "work"
    /\ LET jd == Put(Put(Put(job_data[w], "status", "failed_blender"), "error", "stage failed"),
                     "failed_at", time_time(job_data[w].job_id)) IN
         /\ job_data' = [job_data EXCEPT ![w] = jd]
         /\ store' = Put(store, jd.job_id, json_dumps(jd))
         /\ fails' = [fails EXCEPT ![jd.job_id] = @ + 1]
    /\ wpc' = [wpc EXCEPT ![w] = "failed"]
    /\ UNCHANGED <<wsvars, gvars, blender_jobs, failed_blender_jobs, max_retries, retries, enqueued, waiting>>

\* a worker that never retries
MayRetryNever(w) == FALSE

\* the retry test off by one
MayRetryInclusive(w) == retries[w] <= max_retries

\* the worker's test: retries < max_retries
MayRetry(w) == retries[w] < max_retries

\* an increment applied twice
NewRetriesTwice(w) == retries[w] + 2

\* new_retries = retries + 1
NewRetries(w) == retries[w] + 1

\* main_worker_loop, retry branch up to the sleep: the new counter and the
\* status 'retry_blender' go into the local descriptor only
Retry(w) ==
    /\ wpc[w] = "failed"
    /\ MayRetry(w)
    /\ job_data' = [job_data EXCEPT ![w] =
           Put(Put(job_data[w], "blender_retries", NewRetries(w)), "status", "retry_blender")]
    /\ wpc' = [wpc EXCEPT ![w] = "sleep"]
    /\ UNCHANGED <<wsvars, gvars, blender_jobs, failed_blender_jobs, store, max_retries, retries, enqueued, fails, waiting>>

\* main_worker_loop: after time.sleep(retry_delay) the descriptor is pushed
\* back onto 'blender_jobs'
Requeue(w) ==
    /\ wpc[w] = "sleep"
    /\ blender_jobs' = lpush(blender_jobs, json_dumps(job_data[w]))
    /\ job_data' = [job_data EXCEPT ![w] = EmptyDict]
    /\ retries' = [retries EXCEPT ![w] = 0]
    /\ wpc' = [wpc EXCEPT ![w] = "brpop"]
    /\ waiting' = Append(waiting, job_data[w].job_id)
    /\ UNCHANGED <<wsvars, gvars, failed_blender_jobs, store, max_retries, enqueued, fails>>

\* an else branch that only logs and drops the descriptor
DeadLetterDrop(w) ==
    /\ wpc[w] = "failed"
    /\ ~MayRetry(w)
    /\ job_data' = [job_data EXCEPT ![w] = EmptyDict]
    /\ retries' = [retries EXCEPT ![w] = 0]
    /\ wpc' = [wpc EXCEPT ![w] = "brpop"]
    /\ UNCHANGED <<wsvars, gvars, blender_jobs, failed_blender_jobs, store, max_retries, enqueued, fails, waiting>>

\* main_worker_loop, else branch: the descriptor goes to 'failed_blender_jobs'
DeadLetter(w) ==
    /\ wpc[w] = "failed"
    /\ ~MayRetry(w)
    /\ failed_blender_jobs' = lpush(failed_blender_jobs, json_dumps(job_data[w]))
    /\ job_data' = [job_data EXCEPT ![w] = EmptyDict]
    /\ retries' = [retries EXCEPT ![w] = 0]
    /\ wpc' = [wpc EXCEPT ![w] = "brpop"]
    /\ UNCHANGED <<wsvars, gvars, blender_jobs, store, max_retries, enqueued, fails, waiting>>

\* ------------------------------------------------------- client registry
\* self.clients is a dict: an insertion-ordered entry array in which a deleted
\* entry leaves a hole, and a count of the live entries.
Hole == [id |-> 0, ws |-> 0]

\* len(self.clients)
DictUsed(d) == Cardinality({i \in 1..Len(d) : d[i] # Hole})

\* client_id in self.clients
DictHas(d, c) == \E i \in 1..Len(d) : d[i].id = c

\* self.clients[client_id]
DictGet(d, c) == d[CHOOSE i \in 1..Len(d) : d[i].id = c].ws

\* self.clients[client_id] = websocket
DictSet(d, c, k) ==
    IF DictHas(d, c)
    THEN [i \in 1..Len(d) |-> IF d[i].id = c THEN [id |-> c, ws |-> k] ELSE d[i]]
    ELSE Append(d, [id |-> c, ws |-> k])

\* unregister_client: if client_id in self.clients: del self.clients[client_id]
unregister_client(d, c) == [i \in 1..Len(d) |-> IF d[i].id = c THEN Hole ELSE d[i]]

\* the connections registered under one of the client ids cs
WsOf(d, cs) == {d[i].ws : i \in {n \in 1..Len(d) : d[n] # Hole /\ d[n].id \in cs}}
RegisteredIds(d) == {d[i].id : i \in {n \in 1..Len(d) : d[n] # Hole}}
RegisteredWs(d) == WsOf(d, RegisteredIds(d))

\* ------------------------------------------------------------- messages
ConnMsg(c) == [type |-> "connection", status |-> "connected", client_id |-> c]
StatusMsg(j, data) == [type |-> "job_status", job_id |-> j, data |-> data]
ProgressMsg(j, data) == [type |-> "progress_update", job_id |-> j, data |-> data]

NoSend == [to |-> 0, msg |-> {}]

\* websocket.send up to its first suspension: on an open connection the text
\* is handed to the transport at once, in call order (the greeting of
\* register_client is not recorded)
Written(box, k, blob) ==
    IF cstate[k] = "open" /\ json_loads(blob).type # "connection"
    THEN [box EXCEPT ![k] = Append(@, blob)]
    ELSE box

\* how the awaited websocket.send can end: ConnectionClosed once the
\* connection is closed, any other exception at any time
Outcomes(k) == {"error"} \cup (IF cstate[k] = "open" THEN {"ok"} ELSE {"closed"})

\* f[1] + ... + f[n]
RECURSIVE Total(_, _)
Total(f, n) == IF n = 0 THEN 0 ELSE f[n] + Total(f, n - 1)

\* ------------------------------------------------------- handle_client
\* a websocket connection is accepted and its handle_client task starts
Connect(k) ==
    /\ cstate[k] = "none"
    /\ cstate' = [cstate EXCEPT ![k] = "open"]
    /\ hpc' = [hpc EXCEPT ![k] = "recv"]
    /\ UNCHANGED <<qvars, gvars, clients, client_id, hsend, hjob, inbox, subscribed, pubsubq,
                   lvars, rvars, nidentify, nsubscribe, subAt, plog>>

\* an identify message: register_client up to the suspension in the send of
\* the greeting
RecvIdentify(k, c) ==
    /\ hpc[k] = "recv" /\ cstate[k] = "open"
    /\ Total(nidentify, NumConns) < MaxIdentify
    /\ client_id' = [client_id EXCEPT ![k] = c]
    /\ clients' = DictSet(clients, c, k)
    /\ hsend' = [hsend EXCEPT ![k] = [to |-> k, msg |-> json_dumps(ConnMsg(c))]]
    /\ hpc' = [hpc EXCEPT ![k] = "send"]
    /\ nidentify' = [nidentify EXCEPT ![k] = @ + 1]
    /\ UNCHANGED <<qvars, gvars, cstate, hjob, inbox, subscribed, pubsubq, lvars, rvars,
                   nsubscribe, subAt, plog>>

\* send_to_client: the awaited send of a handle_client task ends
HandlerSendDone(k, outcome) ==
    /\ hpc[k] = "send"
    /\ outcome \in Outcomes(hsend[k].to)
    /\ clients' = IF outcome = "closed"
                  THEN unregister_client(clients, client_id[k])
                  ELSE clients
    /\ hsend' = [hsend EXCEPT ![k] = NoSend]
    /\ hpc' = [hpc EXCEPT ![k] = "recv"]
    /\ UNCHANGED <<qvars, gvars, cstate, client_id, hjob, inbox, subscribed, pubsubq, lvars, rvars,
                   nidentify, nsubscribe, subAt, plog>>

\* a subscribe_job message of an identified connection:
\* subscribe_to_job_progress up to the await of the record lookup
RecvSubscribe(k, j) ==
    /\ hpc[k] = "recv" /\ cstate[k] = "open"
    /\ client_id[k] # 0
    /\ Total(nsubscribe, NumConns) < MaxSubscribe
    /\ hjob' = [hjob EXCEPT ![k] = j]
    /\ hpc' = [hpc EXCEPT ![k] = "get"]
    /\ nsubscribe' = [nsubscribe EXCEPT ![k] = @ + 1]
    /\ subAt' = [subAt EXCEPT ![k] = nreports]
    /\ UNCHANGED <<qvars, gvars, clients, cstate, client_id, hsend, inbox, subscribed, pubsubq,
                   lvars, rvars, nidentify, plog>>

\* subscribe_to_job_progress: redis get returned; the snapshot send starts if
\* there is a record and the client id is registered
SubscribeGot(k) ==
    /\ hpc[k] = "get"
    /\ IF hjob[k] \in DOMAIN store /\ DictHas(clients, client_id[k])
       THEN LET to == DictGet(clients, client_id[k])
                msg == json_dumps(StatusMsg(hjob[k], json_loads(store[hjob[k]])))
            IN /\ hsend' = [hsend EXCEPT ![k] = [to |-> to, msg |-> msg]]
               /\ inbox' = Written(inbox, to, msg)
               /\ hpc' = [hpc EXCEPT ![k] = "send"]
       ELSE /\ UNCHANGED <<hsend, inbox>>
            /\ hpc' = [hpc EXCEPT ![k] = "recv"]
    /\ UNCHANGED <<qvars, gvars, clients, cstate, client_id, hjob, subscribed, pubsubq,
                   lvars, rvars, nidentify, nsubscribe, subAt, plog>>

\* the peer closes the connection
PeerClose(k) ==
    /\ cstate[k] = "open"
    /\ cstate' = [cstate EXCEPT ![k] = "closed"]
    /\ UNCHANGED <<qvars, gvars, clients, hpc, client_id, hsend, hjob, inbox, subscribed, pubsubq,
                   lvars, rvars, nidentify, nsubscribe, subAt, plog>>

\* handle_client: the finally block
Finally(k) ==
    /\ clients' = IF client_id[k] # 0 THEN unregister_client(clients, client_id[k]) ELSE clients
    /\ hpc' = [hpc EXCEPT ![k] = "done"]

\* handle_client: the message loop ends on the closed connection
HandlerExit(k) ==
    /\ hpc[k] = "recv" /\ cstate[k] = "closed"
    /\ Finally(k)
    /\ UNCHANGED <<qvars, gvars, cstate, client_id, hsend, hjob, inbox, subscribed, pubsubq,
                   lvars, rvars, nidentify, nsubscribe, subAt, plog>>

\* handle_client: a message that json.loads rejects raises out of the loop;
\* the connection is closed when the handler returns
BadMessage(k) ==
    /\ hpc[k] = "recv" /\ cstate[k] = "open"
    /\ Finally(k)
    /\ cstate' = [cstate EXCEPT ![k] = "closed"]
    /\ UNCHANGED <<qvars, gvars, client_id, hsend, hjob, inbox, subscribed, pubsubq,
                   lvars, rvars, nidentify, nsubscribe, subAt, plog>>

\* ------------------------------------------------------- Redis pub/sub
\* PUBLISH progress:<job_id> data: delivered to the listener if it is subscribed
publish(q, j, blob) == IF subscribed THEN Append(q, [channel |-> j, data |-> blob]) ELSE q

\* an endpoint that publishes every posted event on one fixed topic
progress_endpoint_fixed(q, data) == publish(q, 0, json_dumps(data))

\* progress_endpoint: the posted event is published on the job's topic
progress_endpoint(q, data) == publish(q, data.job_id, json_dumps(data))

\* ------------------------------------------------------- report_progress
\* report_progress, called by a worker for the job it is processing, up to
\* the return of requests.post. The POST either reaches
\* progress_endpoint ("delivered"; "delivered_timeout" when the answer then
\* takes longer than the 5 s timeout), is answered by something else
\* ("rejected": no exception, requests does not raise on a status), or raises
\* ("unreachable"). An exception skips the publish that follows.
ReportPost(j, outcome) ==
    /\ rpc = "idle"
    /\ nreports < NumEvents
    /\ \E w \in Workers : wpc[w] = "work" /\ job_data[w].job_id = j
    /\ LET pl == [job_id |-> j, ev |-> nreports + 1] IN
         /\ payload' = pl
         /\ pubsubq' = IF outcome \in {"delivered", "delivered_timeout"}
                       THEN progress_endpoint(pubsubq, json_loads(json_dumps(pl)))
                       ELSE pubsubq
    /\ rpc' = IF outcome \in {"delivered", "rejected"} THEN "posted" ELSE "idle"
    /\ nreports' = nreports + 1
    /\ UNCHANGED <<qvars, gvars, clients, hvars, inbox, subscribed, lvars, nidentify, nsubscribe,
                   subAt, plog>>

\* report_progress: redis_client.publish(f"progress:{job_id}", json.dumps(payload))
ReportPublish ==
    /\ rpc = "posted"
    /\ pubsubq' = publish(pubsubq, payload.job_id, json_dumps(payload))
    /\ rpc' = "idle"
    /\ UNCHANGED <<qvars, gvars, clients, hvars, inbox, subscribed, lvars, payload, nreports,
                   nidentify, nsubscribe, subAt, plog>>

\* ------------------------------------------------------- redis_listener
\* pubsub.psubscribe('progress:*')
Psubscribe ==
    /\ lpc = "init"
    /\ lpc' = "listen"
    /\ subscribed' = TRUE
    /\ UNCHANGED <<qvars, gvars, clients, hvars, inbox, pubsubq, bmsg, iter, bto,
                   disconnected_clients, rvars, nidentify, nsubscribe, subAt, plog>>

NoEntry == Hole
NoIter == [pos |-> 0, used |-> 0, len |-> 0]
NoPass == [ev |-> 0, dict |-> <<>>, tried |-> {}, ok |-> {}, failed |-> {}, end |-> "none"]

\* the entries the iterator has not passed yet
Ahead(it) == {i \in it.pos..Len(clients) : clients[i] # Hole}

Min(S) == CHOOSE x \in S : \A y \in S : x <= y

\* a cleanup loop that unregisters nobody
CleanupNone(d, disc) == d

\* broadcast: for client_id in disconnected_clients: unregister_client(client_id)
Cleanup(d, disc) ==
    [i \in 1..Len(d) |-> IF \E n \in 1..Len(disc) : disc[n] = d[i].id THEN Hole ELSE d[i]]

\* the items iterator is exhausted
LoopEnded(it, disc) == Ahead(it) = {}

\* broadcast: the iterator's next() and what follows it up to the next
\* suspension (in the send to the next client) or the end of broadcast.
\* next() raises RuntimeError when the dict's size is no longer the one the
\* iterator started with, or when the iterator has already yielded as many
\* items as the dict had; the exception leaves broadcast (the cleanup loop is
\* skipped) and is logged by redis_listener. At the end of the loop the
\* clients whose send failed are unregistered.
IterNext(it, disc, pl, msg) ==
    IF it.used # DictUsed(clients) \/ (~LoopEnded(it, disc) /\ it.len = 0)
    THEN /\ lpc' = "listen"
         /\ plog' = [pl EXCEPT !.end = "aborted"]
         /\ clients' = clients
         /\ inbox' = inbox
         /\ iter' = NoIter /\ bto' = NoEntry /\ disconnected_clients' = <<>>
    ELSE IF LoopEnded(it, disc)
    THEN /\ lpc' = "listen"
         /\ plog' = [pl EXCEPT !.end = "done"]
         /\ clients' = Cleanup(clients, disc)
         /\ inbox' = inbox
         /\ iter' = NoIter /\ bto' = NoEntry /\ disconnected_clients' = <<>>
    ELSE LET i == Min(Ahead(it)) IN
         /\ lpc' = "send"
         /\ plog' = [pl EXCEPT !.tried = @ \cup {clients[i].id}]
         /\ clients' = clients
         /\ inbox' = Written(inbox, clients[i].ws, json_dumps(msg))
         /\ iter' = [pos |-> i + 1, used |-> it.used, len |-> it.len - 1]
         /\ bto' = clients[i]
         /\ disconnected_clients' = disc

\* redis_listener takes the next pmessage and calls broadcast, which returns
\* at once on an empty registry and otherwise runs to its first awaited send
ListenerTake ==
    /\ lpc = "listen"
    /\ pubsubq # <<>>
    /\ LET m == Head(pubsubq)
           data == json_loads(m.data)
           pl == [NoPass EXCEPT !.ev = data.ev, !.dict = clients]
       IN
         /\ pubsubq' = Tail(pubsubq)
         /\ bmsg' = ProgressMsg(m.channel, data)
         /\ IF DictUsed(clients) = 0
            THEN /\ lpc' = "listen"
                 /\ plog' = [pl EXCEPT !.end = "done"]
                 /\ UNCHANGED <<clients, inbox, iter, bto, disconnected_clients>>
            ELSE IterNext([pos |-> 1, used |-> DictUsed(clients), len |-> DictUsed(clients)],
                          <<>>, [pl EXCEPT !.end = "running"], ProgressMsg(m.channel, data))
    /\ UNCHANGED <<qvars, gvars, hvars, subscribed, rvars, nidentify, nsubscribe, subAt>>

\* broadcast: the awaited send ends; a failure of either kind puts the client
\* id on disconnected_clients; the loop goes on
BroadcastSendDone(outcome) ==
    /\ lpc = "send"
    /\ outcome \in Outcomes(bto.ws)
    /\ IF outcome = "ok"
       THEN IterNext(iter, disconnected_clients, [plog EXCEPT !.ok = @ \cup {bto.id}], bmsg)
       ELSE IterNext(iter, Append(disconnected_clients, bto.id),
                     [plog EXCEPT !.failed = @ \cup {bto.id}], bmsg)
    /\ UNCHANGED <<qvars, gvars, hvars, subscribed, pubsubq, bmsg, rvars, nidentify, nsubscribe, subAt>>

\* ------------------------------------------------------- ingestion gateway
\* file.size when the upload carries no length (None)
NoSize == 0 - 1
Sizes == 0..(max_upload_size + 1) \cup {NoSize}
NoFile == [ext |-> FALSE, size |-> NoSize]

\* job_id = str(uuid.uuid4()): a fresh id per request, none of the stage's
JobIdOf(r) == NumJobs + r

\* a validation without the extension test
ValidSizeOnly(f) == f.size # NoSize /\ ~(f.size > max_upload_size)

\* upload_video, validation: the filename ends with an allowed extension and
\* file.size is not above MAX_UPLOAD_SIZE (the comparison raises TypeError on a
\* missing size)
Valid(f) == f.ext /\ f.size # NoSize /\ ~(f.size > max_upload_size)

\* the job_data of upload_video
GatewayMaxRetries == 3
GatewayJob(r) ==
    [job_id |-> JobIdOf(r), status |-> "queued", retries |-> 0,
     max_retries |-> GatewayMaxRetries]

\* the except block turns every exception, the HTTPException(400) of the
\* validation included, into HTTPException(500)
Respond(r, resp) ==
    /\ gresp' = [gresp EXCEPT ![r] = resp]
    /\ gpc' = [gpc EXCEPT ![r] = "done"]

\* upload_video up to its first await: validation, job id, the file is saved
\* (which may raise)
Upload(r, f, saved) ==
    /\ gpc[r] = "idle"
    /\ greq' = [greq EXCEPT ![r] = f]
    /\ IF Valid(f) /\ saved
       THEN /\ gpc' = [gpc EXCEPT ![r] = "lpush"]
            /\ gresp' = gresp
       ELSE Respond(r, "error")
    /\ UNCHANGED <<qvars, wsvars, colmap_jobs, max_upload_size, pushes, sets>>

\* await redis_client.lpush('colmap_jobs', json.dumps(job_data))
GatewayLpush(r, ok) ==
    /\ gpc[r] = "lpush"
    /\ IF ok
       THEN /\ colmap_jobs' = lpush(colmap_jobs, json_dumps(GatewayJob(r)))
            /\ pushes' = [pushes EXCEPT ![r] = @ + 1]
            /\ gpc' = [gpc EXCEPT ![r] = "set"]
            /\ gresp' = gresp
       ELSE /\ Respond(r, "error")
            /\ UNCHANGED <<colmap_jobs, pushes>>
    /\ UNCHANGED <<qvars, wsvars, max_upload_size, greq, sets>>

\* a set that is skipped
GatewaySetSkipped(r, ok) ==
    /\ gpc[r] = "set"
    /\ IF ok
       THEN /\ gpc' = [gpc EXCEPT ![r] = "llen"]
            /\ gresp' = gresp
       ELSE Respond(r, "error")
    /\ UNCHANGED <<qvars, wsvars, colmap_jobs, max_upload_size, greq, pushes, sets>>

\* await redis_client.set(f"job:{job_id}", json.dumps(job_data))
GatewaySet(r, ok) ==
    /\ gpc[r] = "set"
    /\ IF ok
       THEN /\ store' = Put(store, JobIdOf(r), json_dumps(GatewayJob(r)))
            /\ sets' = [sets EXCEPT ![r] = @ + 1]
            /\ gpc' = [gpc EXCEPT ![r] = "llen"]
            /\ gresp' = gresp
       ELSE /\ Respond(r, "error")
            /\ UNCHANGED <<store, sets>>
    /\ UNCHANGED <<wsvars, blender_jobs, failed_blender_jobs, max_retries, wpc, job_data,
                   retries, enqueued, fails, waiting, colmap_jobs, max_upload_size, greq, pushes>>

\* QUEUE_SIZE.set(await redis_client.llen('colmap_jobs')) and the success
\* response
GatewayLlen(r, ok) ==
    /\ gpc[r] = "llen"
    /\ Respond(r, IF ok THEN "success" ELSE "error")
    /\ UNCHANGED <<qvars, wsvars, colmap_jobs, max_upload_size, greq, pushes, sets>>

\* ------------------------------------------------------- specification
\* the gateway after start: no request yet
InitGateway ==
    /\ colmap_jobs = <<>>
    /\ max_upload_size = MaxUploadCfg
    /\ gpc = [r \in Reqs |-> "idle"]
    /\ greq = [r \in Reqs |-> NoFile]
    /\ gresp = [r \in Reqs |-> "none"]
    /\ pushes = [r \in Reqs |-> 0]
    /\ sets = [r \in Reqs |-> 0]

\* The broadcast server after construction: empty registry, listener not yet
\* subscribed, no report under way.
InitServer ==
    /\ clients = <<>>
    /\ cstate = [k \in Conns |-> "none"]
    /\ hpc = [k \in Conns |-> "none"]
    /\ client_id = [k \in Conns |-> 0]
    /\ hsend = [k \in Conns |-> NoSend]
    /\ hjob = [k \in Conns |-> 0]
    /\ inbox = [k \in Conns |-> <<>>]
    /\ subscribed = FALSE
    /\ pubsubq = <<>>
    /\ lpc = "init"
    /\ bmsg = ProgressMsg(0, EmptyDict)
    /\ iter = NoIter
    /\ bto = NoEntry
    /\ disconnected_clients = <<>>
    /\ rpc = "idle"
    /\ payload = [job_id |-> 0, ev |-> 0]
    /\ nreports = 0
    /\ nidentify = [k \in Conns |-> 0]
    /\ nsubscribe = [k \in Conns |-> 0]
    /\ subAt = [k \in Conns |-> 0]
    /\ plog = NoPass

\* Job 1 is being processed by worker 1 and has a record, job 2 has none.
InitWS ==
    /\ blender_jobs = <<>>
    /\ failed_blender_jobs = <<>>
    /\ store = Put(EmptyDict, 1, json_dumps([job_id |-> 1, status |-> "processing_blender",
                                             blender_started_at |-> 1]))
    /\ max_retries = MaxRetriesCfg
    /\ wpc = [w \in Workers |-> IF w = 1 THEN "work" ELSE "brpop"]
    /\ job_data = [w \in Workers |->
                     IF w = 1 THEN [job_id |-> 1, status |-> "processing_blender",
                                    blender_started_at |-> 1]
                     ELSE EmptyDict]
    /\ retries = [w \in Workers |-> 0]
    /\ enqueued = {1}
    /\ fails = [j \in Jobs |-> 0]
    /\ waiting = <<>>
    /\ InitServer
    /\ InitGateway

NextWS ==
    \/ \E k \in Conns : Connect(k)
    \/ \E k \in Conns, c \in ClientIds : RecvIdentify(k, c)
    \/ \E k \in Conns, o \in {"ok", "closed", "error"} : HandlerSendDone(k, o)
    \/ \E k \in Conns, j \in Jobs : RecvSubscribe(k, j)
    \/ \E k \in Conns : SubscribeGot(k)
    \/ \E k \in Conns : PeerClose(k)
    \/ \E k \in Conns : HandlerExit(k)
    \/ \E k \in Conns : BadMessage(k)
    \/ \E j \in Jobs, o \in {"delivered", "delivered_timeout", "rejected", "unreachable"} :
          ReportPost(j, o)
    \/ ReportPublish
    \/ Psubscribe
    \/ ListenerTake
    \/ \E o \in {"ok", "closed", "error"} : BroadcastSendDone(o)

SpecWS == InitWS /\ [][NextWS]_vars

\* the awaited send of broadcast to a connection other than connection 1 ends
SendToWorkingEnds ==
    \E o \in {"ok", "closed", "error"} : bto.ws # 1 /\ BroadcastSendDone(o)

\* The event loop runs every task that is ready: the listener subscribes and
\* takes the pmessages delivered to it, and a send to a peer that reads (or
\* whose connection is gone) ends. Connection 1 is the peer that may be slow:
\* nothing makes a send to it end.
FairSpecWS ==
    SpecWS /\ WF_vars(Psubscribe) /\ WF_vars(ListenerTake) /\ WF_vars(SendToWorkingEnds)

InitQ ==
    /\ blender_jobs = <<>>
    /\ failed_blender_jobs = <<>>
    /\ store = EmptyDict
    /\ max_retries \in 0..MaxRetriesCfg
    /\ wpc = [w \in Workers |-> "brpop"]
    /\ job_data = [w \in Workers |-> EmptyDict]
    /\ retries = [w \in Workers |-> 0]
    /\ enqueued = {}
    /\ fails = [j \in Jobs |-> 0]
    /\ waiting = <<>>
    /\ InitServer
    /\ InitGateway

NextQ ==
    \/ \E j \in Jobs : Enqueue(j)
    \/ \E w \in Workers : Dequeue(w)
    \/ \E w \in Workers : StartJob(w)
    \/ \E w \in Workers : Succeed(w)
    \/ \E w \in Workers : Fail(w)
    \/ \E w \in Workers : Retry(w)
    \/ \E w \in Workers : Requeue(w)
    \/ \E w \in Workers : DeadLetter(w)

SpecQ == InitQ /\ [][NextQ]_vars

\* A running worker process goes on to its next statement: the retry branch
\* after a failed attempt, and the lpush once time.sleep returns.
FairSpecQ == SpecQ /\ \A w \in Workers : WF_vars(Retry(w)) /\ WF_vars(Requeue(w))

\* The gateway alone: concurrent upload requests against an empty Redis.
InitG == InitQ /\ max_retries = MaxRetriesCfg

NextG ==
    \/ \E r \in Reqs, e \in BOOLEAN, z \in Sizes, saved \in BOOLEAN :
          Upload(r, [ext |-> e, size |-> z], saved)
    \/ \E r \in Reqs, ok \in BOOLEAN : GatewayLpush(r, ok)
    \/ \E r \in Reqs, ok \in BOOLEAN : GatewaySet(r, ok)
    \/ \E r \in Reqs, ok \in BOOLEAN : GatewayLlen(r, ok)

SpecG == InitG /\ [][NextG]_vars

\* ------------------------------------------------------- reading the state
DescJob(blob) == json_loads(blob).job_id
DescRetries(blob) == Get(json_loads(blob), "blender_retries", 0)

InList(list, j) == {i \in 1..Len(list) : DescJob(list[i]) = j}
QueueCount(j) == Cardinality(InList(blender_jobs, j))
DeadCount(j) == Cardinality(InList(failed_blender_jobs, j))
Holds(w, j) == wpc[w] # "brpop" /\ job_data[w].job_id = j
HeldCount(j) == Cardinality({w \in Workers : Holds(w, j)})

StatusIn(st, j) == IF j \in DOMAIN st THEN json_loads(st[j]).status ELSE "none"
StoreStatus(j) == StatusIn(store, j)

\* ------------------------------------------------------------------ claims

\* C1: every job's descriptor is in at most one place: the live queue, one
\* worker (processing it or waiting out the backoff), or the dead-letter list.
C1_OnePlace == \A j \in Jobs : QueueCount(j) + HeldCount(j) + DeadCount(j) <= 1

\* two workers have dequeued concurrently and hold different jobs
C1_Witness ==
    \E w1 \in Workers, w2 \in Workers :
        /\ w1 # w2
        /\ wpc[w1] = "work" /\ wpc[w2] = "work"
        /\ job_data[w1].job_id # job_data[w2].job_id

\* C2: a failed attempt with retry counter r below max_retries leads to the
\* job being back on the stage queue with retry counter exactly r + 1. (Every
\* descriptor starts at counter 0, so r + 1 is the number of failed attempts
\* so far: the first conjunct states that, the second the re-enqueue.)
C2_CounterInv ==
    \A w \in Workers, j \in Jobs :
        (wpc[w] = "failed" /\ job_data[w].job_id = j) => retries[w] + 1 = fails[j]

C2_RetryRequeued ==
    /\ []C2_CounterInv
    /\ \A j \in Jobs :
        (\E w \in Workers : wpc[w] = "failed" /\ job_data[w].job_id = j /\ MayRetry(w))
            ~> (\E i \in InList(blender_jobs, j) : DescRetries(blender_jobs[i]) = fails[j])

\* a job is back on the queue after its second failed attempt
C2_Witness ==
    \E j \in Jobs : \E i \in InList(blender_jobs, j) :
        DescRetries(blender_jobs[i]) = 2 /\ fails[j] = 2

\* C3: a job that keeps failing is dead-lettered exactly once, at failed
\* attempt number max_retries + 1, and from then on it is in the dead-letter
\* list only: never in the live queue and never held by a worker.
C3_DeadInv ==
    \A j \in Jobs :
        /\ fails[j] <= max_retries + 1
        /\ DeadCount(j) <= 1
        /\ DeadCount(j) = 1 =>
              /\ fails[j] = max_retries + 1
              /\ QueueCount(j) = 0
              /\ HeldCount(j) = 0
        /\ fails[j] = max_retries + 1 =>
              \/ DeadCount(j) = 1
              \/ \E w \in Workers : Holds(w, j) /\ wpc[w] = "failed"

C3_DeadLetterOnce ==
    /\ []C3_DeadInv
    /\ [][\A j \in Jobs : DeadCount(j) = 1 => Cardinality(InList(failed_blender_jobs', j)) = 1]_vars

\* a job has been dead-lettered after three failed attempts
C3_Witness == \E j \in Jobs : DeadCount(j) = 1 /\ fails[j] = 3 /\ max_retries = 2

\* the worker has finished handling the last failed attempt of job j
Handled(j) == \A w \in Workers : ~(Holds(w, j) /\ wpc[w] \in {"failed", "sleep"})

DeadWithRetries(j, r) ==
    \E i \in InList(failed_blender_jobs, j) : DescRetries(failed_blender_jobs[i]) = r

\* C4 as stated: with max_retries = 2, after exactly two failed attempts of
\* job 1 the dead-letter list holds it with retry counter 2, it is not in the
\* live queue and its record shows failed_blender.
C4_Original ==
    (max_retries = 2 /\ fails[1] = 2 /\ Handled(1)) =>
        /\ DeadWithRetries(1, 2)
        /\ QueueCount(1) = 0
        /\ StoreStatus(1) = "failed_blender"

\* C4 amended: the same after exactly three (max_retries + 1) failed attempts.
C4_Amended ==
    (max_retries = 2 /\ fails[1] = 3 /\ Handled(1)) =>
        /\ DeadWithRetries(1, 2)
        /\ QueueCount(1) = 0
        /\ StoreStatus(1) = "failed_blender"

\* job 1 has failed three times under max_retries = 2 and has been handled
C4_Witness == max_retries = 2 /\ fails[1] = 3 /\ Handled(1)

\* C5 as stated: once a record's status is failed_blender no write changes it.
C5_FailedTerminal ==
    [][\A j \in Jobs : StoreStatus(j) = "failed_blender" =>
                          StatusIn(store', j) = "failed_blender"]_vars

\* C6: completed is terminal: the status is never changed again, and the
\* job's descriptor is in no list and with no worker from then on.
C6_CompletedInv ==
    \A j \in Jobs : StoreStatus(j) = "completed" =>
        QueueCount(j) + HeldCount(j) + DeadCount(j) = 0

C6_CompletedTerminal ==
    /\ []C6_CompletedInv
    /\ [][\A j \in Jobs : StoreStatus(j) = "completed" =>
                             StatusIn(store', j) = "completed"]_vars

\* a job has completed on a retry while the other job is still in the queue
C6_Witness ==
    \E j \in Jobs, k \in Jobs :
        /\ StoreStatus(j) = "completed" /\ fails[j] >= 1
        /\ QueueCount(k) = 1


\* ------------------------------------------------- claims, broadcast server
Msg(k, i) == json_loads(inbox[k][i])
ProgressAt(k, e) ==
    {i \in 1..Len(inbox[k]) : Msg(k, i).type = "progress_update" /\ Msg(k, i).data.ev = e}
StatusAt(k) == {i \in 1..Len(inbox[k]) : Msg(k, i).type = "job_status"}
Live(d) == {d[i] : i \in {n \in 1..Len(d) : d[n] # Hole}}
PassEnded == plog.end \in {"done", "aborted"}

\* C7 as stated: a reported event that reaches the server is sent as a
\* progress_update exactly once per report to every registered client: no
\* client (a connection that identified once) gets the same event twice, and
\* when the pass for the event has ended no client that was registered when it
\* began (and still is, with an open connection and no failed send) is
\* without it.
C7_Original ==
    /\ \A k \in Conns, e \in Events :
          nidentify[k] <= 1 => Cardinality(ProgressAt(k, e)) <= 1
    /\ PassEnded =>
          \A en \in Live(plog.dict) :
              (en \in Live(clients) /\ cstate[en.ws] = "open" /\ en.id \notin plog.failed)
                  => ProgressAt(en.ws, plog.ev) # {}

\* C8 as stated: a subscribe_job is answered by at most one job_status per
\* request, and no progress_update for an event reported after the request
\* came in is sent to the client before that job_status.
C8_Original ==
    \A k \in Conns :
        /\ Cardinality(StatusAt(k)) <= Total(nsubscribe, NumConns)
        /\ \A i \in StatusAt(k) : \A n \in 1..(i - 1) :
              ~(Msg(k, n).type = "progress_update" /\ Msg(k, n).data.ev > subAt[k])

\* The scenario of C9: connections a and b have each identified once, and
\* theirs are the two registrations the pass began on; no other connection has
\* identified.
Scenario(a, b) ==
    /\ a # b
    /\ \A k \in Conns : nidentify[k] = (IF k \in {a, b} THEN 1 ELSE 0)
    /\ Live(plog.dict) = {[id |-> client_id[a], ws |-> a], [id |-> client_id[b], ws |-> b]}

\* C9: with clients c1 and c2 identified, one published event is sent to both
\* as the same progress_update; and a pass in which the send to c1 fails on its
\* closed socket while the send to c2 succeeds (c2 staying connected) leaves
\* exactly c2 registered.
C9_Scenario ==
    \A a \in Conns, b \in Conns :
        (/\ Scenario(a, b) /\ PassEnded
         /\ cstate[b] = "open" /\ client_id[b] \notin plog.failed)
        =>
        /\ (cstate[a] = "open" /\ client_id[a] \notin plog.failed) =>
              /\ ProgressAt(a, plog.ev) # {}
              /\ ProgressAt(b, plog.ev) # {}
              /\ {inbox[a][i] : i \in ProgressAt(a, plog.ev)}
                    = {inbox[b][i] : i \in ProgressAt(b, plog.ev)}
        /\ (cstate[a] = "closed" /\ plog.failed = {client_id[a]} /\ client_id[b] \in plog.ok) =>
              /\ ~DictHas(clients, client_id[a])
              /\ Live(clients) = {[id |-> client_id[b], ws |-> b]}

\* the pass ran to its cleanup: the send to c1 failed on the closed socket, the
\* send to c2 went through, and c2 has the event
C9_Witness ==
    /\ Scenario(1, 2) /\ plog.end = "done"
    /\ client_id[1] = 1 /\ client_id[2] = 2
    /\ cstate[1] = "closed" /\ cstate[2] = "open"
    /\ plog.failed = {1} /\ plog.ok = {2}
    /\ ProgressAt(2, plog.ev) # {}
    /\ hpc[1] # "done"

\* C10 as stated: a pass in which a send failed has still attempted the
\* message on every connection that was registered when the pass began.
C10_Original ==
    (PassEnded /\ plog.failed # {}) => plog.tried = RegisteredIds(plog.dict)

\* a pass has ended in which the first send failed and a later one went
\* through: the failure did not stop the loop
C10_Continues ==
    /\ PassEnded /\ Len(plog.dict) >= 2
    /\ plog.dict[1].id \in plog.failed
    /\ plog.dict[2].id \in plog.ok
    /\ plog.tried = RegisteredIds(plog.dict)

\* C11 as stated: while the send of a pass to one client (connection 1) stays
\* suspended, every other client the pass has still to serve, registered and
\* with an open connection, is eventually sent the message of the pass (unless
\* its connection ends or a registry change cuts the pass short).
C11_Original ==
    \A k \in Conns \ {1} :
        (/\ lpc = "send" /\ bto.ws = 1
         /\ cstate[k] = "open"
         /\ \E i \in Ahead(iter) : clients[i].ws = k)
        ~> (\/ ProgressAt(k, plog.ev) # {}
            \/ cstate[k] # "open"
            \/ plog.end = "aborted")

\* C12 as stated: when a send of send_to_client ends on a connection that is
\* closed (so it has failed, whatever was raised), the client id is no longer
\* in the registry when send_to_client returns.
C12_Original ==
    [][\A k \in Conns :
          (hpc[k] = "send" /\ hpc'[k] = "recv" /\ cstate[hsend[k].to] = "closed")
              => ~DictHas(clients', client_id[k])]_vars

\* every progress_update sent for an event carries the event's job as its
\* topic, and all those sent to one connection for one event are the same text
C13_Inv ==
    \A k \in Conns, e \in Events :
        /\ Cardinality({inbox[k][i] : i \in ProgressAt(k, e)}) <= 1
        /\ \A i \in ProgressAt(k, e) : Msg(k, i).job_id = Msg(k, i).data.job_id

\* C13: an event that comes in through the direct push is handed to the
\* listener exactly as a publish of the same event on the job's topic is (one
\* pmessage, same topic, same data), so that the broadcasts it leads to are
\* the same.
C13_SameInput ==
    /\ []C13_Inv
    /\ [][(nreports' = nreports + 1 /\ pubsubq' # pubsubq)
            => pubsubq' = publish(pubsubq, payload'.job_id, json_dumps(payload'))]_vars

\* one report has come in through both paths and the listener holds the two
\* pmessages, which are the same
C13_Witness ==
    /\ Len(pubsubq) = 2 /\ pubsubq[1] = pubsubq[2]
    /\ json_loads(pubsubq[1].data) = payload
    /\ rpc = "idle"

\* C14: a pop from 'blender_jobs' returns the job that has been waiting
\* longest, whether it was pushed by the producer or pushed back after a
\* failed attempt: a retried job waits behind every job that was on the queue
\* when it was pushed back.
C14_Fifo ==
    [][\A w \in Workers :
          (wpc[w] = "brpop" /\ wpc'[w] = "start")
              => (waiting # <<>> /\ job_data'[w].job_id = Head(waiting))]_vars

\* a worker has popped a first-attempt job while a retried job, pushed back
\* after its failure, is still waiting
C14_Witness ==
    \E w \in Workers :
        /\ wpc[w] = "start" /\ retries[w] = 0 /\ fails[job_data[w].job_id] = 0
        /\ Len(blender_jobs) = 1 /\ DescRetries(blender_jobs[1]) = 1
        /\ waiting = <<DescJob(blender_jobs[1])>>

\* the request has been received with a file that the validation is to reject:
\* unsupported extension, or larger than the configured maximum
Rejected(r) ==
    gpc[r] # "idle" /\ (~greq[r].ext \/ greq[r].size > max_upload_size)

\* C15: a request rejected by validation is answered with a failure, and
\* nothing of it reaches Redis: no push on 'colmap_jobs', no job record.
C15_RejectedNoEffect ==
    \A r \in Reqs :
        Rejected(r) =>
            /\ gresp[r] = "error"
            /\ pushes[r] = 0 /\ sets[r] = 0
            /\ InList(colmap_jobs, JobIdOf(r)) = {}
            /\ JobIdOf(r) \notin DOMAIN store

\* one request was rejected for its extension and one for its size, next to
\* one another
C15_Witness ==
    \E a \in Reqs, b \in Reqs :
        /\ gresp[a] = "error" /\ ~greq[a].ext /\ greq[a].size = 0
        /\ gresp[b] = "error" /\ greq[b].ext /\ greq[b].size = max_upload_size + 1

\* C16: a request answered with success has pushed exactly one descriptor of
\* its job onto 'colmap_jobs' and written the job's record, with status queued
\* and retry counter 0.
C16_SuccessBoth ==
    \A r \in Reqs :
        gresp[r] = "success" =>
            /\ pushes[r] = 1 /\ sets[r] = 1
            /\ Cardinality(InList(colmap_jobs, JobIdOf(r))) = 1
            /\ StoreStatus(JobIdOf(r)) = "queued"
            /\ json_loads(store[JobIdOf(r)]).retries = 0

\* one request was answered with success; another, whose set failed after its
\* push, with a failure
C16_Witness ==
    \E a \in Reqs, b \in Reqs :
        /\ gresp[a] = "success" /\ greq[a].size = max_upload_size
        /\ gresp[b] = "error" /\ pushes[b] = 1 /\ sets[b] = 0

\* the stored record of job j shows a failure status and an error message
FailureRecorded(st, j) ==
    /\ j \in DOMAIN st
    /\ json_loads(st[j]).status = "failed_blender"
    /\ "error" \in DOMAIN json_loads(st[j])

\* C17: a failed attempt leaves the worker in its failure handling with the
\* failure and an error message in the job's record; the handling ends with
\* exactly one push of the job's descriptor, onto 'blender_jobs' or onto
\* 'failed_blender_jobs', nothing else being pushed or popped by it, and with
\* the worker back at its brpop.
C17_CaughtRecordedQueued ==
    [][/\ \A j \in Jobs :
            fails'[j] # fails[j]
                => /\ FailureRecorded(store', j)
                   /\ \E w \in Workers :
                         wpc[w] = "work" /\ job_data[w].job_id = j /\ wpc'[w] = "failed"
       /\ \A w \in Workers :
          /\ (wpc[w] = "failed" /\ wpc'[w] # "failed")
                => \/ wpc'[w] = "sleep" /\ UNCHANGED <<blender_jobs, failed_blender_jobs>>
                   \/ /\ wpc'[w] = "brpop" /\ UNCHANGED blender_jobs
                      /\ failed_blender_jobs' = <<json_dumps(job_data[w])>> \o failed_blender_jobs
          /\ (wpc[w] = "sleep" /\ wpc'[w] # "sleep")
                => /\ wpc'[w] = "brpop" /\ UNCHANGED failed_blender_jobs
                   /\ blender_jobs' = <<json_dumps(job_data[w])>> \o blender_jobs]_vars

\* a job was dead-lettered with its failure on record, a worker is back at
\* work on another job, and that job has failed and been pushed back
C17_Witness ==
    \E w \in Workers, j \in Jobs :
        /\ DeadCount(j) = 1 /\ FailureRecorded(store, j)
        /\ wpc[w] = "start" /\ job_data[w].job_id # j /\ retries[w] = 1

\* C18 as stated: while a descriptor that was pushed back after a failed
\* attempt waits on 'blender_jobs', the job's stored status is retry_blender.
C18_Original ==
    \A j \in Jobs :
        (\E i \in InList(blender_jobs, j) : DescRetries(blender_jobs[i]) >= 1)
            => StoreStatus(j) = "retry_blender"

\* C19 as stated: the registration of client id c for connection k goes away
\* only when k's own handler ends, when a send to k has failed (a send of its
\* handler, or one of a broadcast pass that then cleans up), or when another
\* connection registers under c.
C19_Original ==
    [][\A c \in ClientIds, k \in Conns :
          ([id |-> c, ws |-> k] \in Live(clients) /\ [id |-> c, ws |-> k] \notin Live(clients'))
              => \/ hpc[k] # "done" /\ hpc'[k] = "done"
                 \/ hpc[k] = "send" /\ hpc'[k] = "recv" /\ hsend[k].to = k
                 \/ lpc = "send" /\ lpc' = "listen" /\ c \in plog'.failed
                 \/ \E k2 \in Conns \ {k} :
                       nidentify'[k2] # nidentify[k2] /\ client_id'[k2] = c]_vars

\* C20 as stated: once the handler of a connection has ended, no client id in
\* the registry maps to that connection.
C20_Original ==
    \A k \in Conns : hpc[k] = "done" => k \notin RegisteredWs(clients)

\* the timestamp fields of a job record that the stage worker writes
TimeFields == {"blender_started_at", "completed_at", "failed_at"}

\* C21 as stated: a timestamp field that a job's stored record carries has
\* the same value in every later write of that record.
C21_Original ==
    [][\A j \in DOMAIN store : \A f \in TimeFields \cap DOMAIN json_loads(store[j]) :
          /\ f \in DOMAIN json_loads(store'[j])
          /\ json_loads(store'[j])[f] = json_loads(store[j])[f]]_vars

\* C22: the retry counter of every descriptor of the stage, on 'blender_jobs',
\* in a worker's hands or on 'failed_blender_jobs', lies in 0..max_retries,
\* and every dead-lettered descriptor carries max_retries.
C22_CounterBounded ==
    /\ \A i \in 1..Len(blender_jobs) : DescRetries(blender_jobs[i]) \in 0..max_retries
    /\ \A w \in Workers :
          wpc[w] # "brpop" =>
              /\ retries[w] \in 0..max_retries
              /\ Get(job_data[w], "blender_retries", 0) \in 0..max_retries
    /\ \A i \in 1..Len(failed_blender_jobs) :
          DescRetries(failed_blender_jobs[i]) = max_retries

\* with max_retries at its configured bound: one job dead-lettered carrying
\* it, another pushed back after its first failure
C22_Witness ==
    /\ max_retries = MaxRetriesCfg
    /\ Len(failed_blender_jobs) = 1 /\ DescRetries(failed_blender_jobs[1]) = MaxRetriesCfg
    /\ Len(blender_jobs) = 1 /\ DescRetries(blender_jobs[1]) = 1

\* C23 as stated: when a pass has ended, the message has been attempted on
\* every client that was registered when the pass began and still is, its
\* connection open, whatever registered or unregistered in between.
C23_Original ==
    PassEnded =>
        \A en \in Live(plog.dict) \cap Live(clients) :
            cstate[en.ws] = "open" => en.id \in plog.tried

\* C24 as stated: whenever a descriptor of a request's job is on
\* 'colmap_jobs', where a stage-1 worker can pop it, the job's record is in
\* the Job Store.
C24_Original ==
    \A r \in Reqs :
        InList(colmap_jobs, JobIdOf(r)) # {} => JobIdOf(r) \in DOMAIN store

\* C25 as stated: whatever the direct push of a report did (delivered,
\* answered with an error status, timed out, connection refused),
\* report_progress goes on to its publish on the job's topic.
C25_Original ==
    [][nreports' # nreports => rpc' = "posted"]_vars
====
